---- MODULE Spec2Model ----
(***************************************************************************)
(* finutils.tvm: time-value-of-money and cashflow functions.               *)
(*                                                                         *)
(* Numbers.  A Python float is modelled by an exact rational <<n, d>> with *)
(* d > 0 in lowest terms.  Two properties of floats are kept, scaled down: *)
(*   - finite range: `**` raises OverflowError when the magnitude of its   *)
(*     result exceeds FloatMax (CPython raises OverflowError from float    *)
(*     pow; here the limit is FloatMax instead of about 1.8e308);          *)
(*   - finite resolution of the solver's iterate: the result of            *)
(*     `r -= y / dy` is rounded to the nearest multiple of 1/Resolution,   *)
(*     and the finite-difference step h is one such unit (the source uses  *)
(*     h = 1e-6 on 53-bit floats).                                         *)
(* Dates are day numbers; the date series of the model differ by whole     *)
(* years, so the exponent (d - t0).days / 365.0 is an integer.             *)
(***************************************************************************)
EXTENDS Integers, Sequences, FiniteSets, TLC

(***************************************************************************)
(* Bounds of the model.                                                    *)
(***************************************************************************)
MaxN == 4
MaxLen == 2
MaxIter == 2
MaxYears == 1
Resolution == 10
FloatMax == 100

(***************************************************************************)
(* Exact rational arithmetic.                                              *)
(***************************************************************************)
IAbs(i) == IF i < 0 THEN -i ELSE i

RECURSIVE GCD(_, _)
GCD(a, b) == IF b = 0 THEN a ELSE GCD(b, a % b)

Norm(n, d) ==
    LET s == IF d < 0 THEN -1 ELSE 1
        g == GCD(IAbs(n), IAbs(d))
    IN  <<(s * n) \div g, (s * d) \div g>>

Zero == <<0, 1>>
One == <<1, 1>>
Rat(i) == <<i, 1>>

\* products are formed after cancelling common factors, to keep the
\* intermediate integers small
RAdd(x, y) ==
    LET g == GCD(x[2], y[2])
    IN  Norm(x[1] * (y[2] \div g) + y[1] * (x[2] \div g), (x[2] \div g) * y[2])
RNeg(x) == <<-x[1], x[2]>>
RSub(x, y) == RAdd(x, RNeg(y))
RMul(x, y) ==
    IF x[1] = 0 \/ y[1] = 0 THEN <<0, 1>>
    ELSE LET g1 == GCD(IAbs(x[1]), y[2])
             g2 == GCD(IAbs(y[1]), x[2])
         IN  <<(x[1] \div g1) * (y[1] \div g2), (x[2] \div g2) * (y[2] \div g1)>>
RInv(x) == Norm(x[2], x[1])
RLt(x, y) == RSub(x, y)[1] < 0
RLe(x, y) == RSub(x, y)[1] <= 0
RAbs(x) == <<IAbs(x[1]), x[2]>>

RECURSIVE RPowNat(_, _)
RPowNat(x, k) == IF k = 0 THEN One ELSE RMul(x, RPowNat(x, k - 1))

\* round-half-even of the rational x to an integer
RoundHalfEven(x) ==
    LET q == x[1] \div x[2]
        rem2 == 2 * (x[1] - q * x[2])
    IN  IF rem2 < x[2] THEN q
        ELSE IF rem2 > x[2] THEN q + 1
        ELSE IF q % 2 = 0 THEN q ELSE q + 1

(***************************************************************************)
(* Python evaluation: a value or a raised exception.  The exceptions are   *)
(* named by what they report: InputError (ValueError raised by argument    *)
(* validation), DegenerateRate (ValueError of npv at rate = -1),           *)
(* NonConvergence (ValueError raised after the solver loop),               *)
(* ZeroDivisionError, OverflowError and TypeError.                         *)
(***************************************************************************)
Ok(v) == [exc |-> "none", val |-> v]
Raise(e) == [exc |-> e, val |-> Zero]
IsOk(x) == x.exc = "none"

\* x / y on floats
PyDiv(x, y) ==
    IF y = Zero THEN Raise("ZeroDivisionError") ELSE Ok(RMul(x, RInv(y)))

\* x ** k on floats, k an integer
PyPow(x, k) ==
    IF k < 0 /\ x = Zero THEN Raise("ZeroDivisionError")
    ELSE LET p == IF k < 0 THEN RInv(RPowNat(x, -k)) ELSE RPowNat(x, k)
         IN  IF RLt(Rat(FloatMax), RAbs(p)) THEN Raise("OverflowError")
             ELSE Ok(p)

\* round(x, 2)
Round2(x) == Norm(RoundHalfEven(RMul(x, Rat(100))), 100)

(***************************************************************************)
(* Closed-form functions.                                                  *)
(***************************************************************************)
\* variant: only a negative flag is rejected
validate_when_nonneg(when) ==
    IF when < 0 THEN Raise("InputError") ELSE Ok(Zero)

validate_when(when) ==
    IF when \notin {0, 1} THEN Raise("InputError") ELSE Ok(Zero)

present_value(rate, n_periods, payment, future_value, when) ==
    IF ~IsOk(validate_when(when)) THEN Raise("InputError")
    ELSE IF n_periods < 0 THEN Raise("InputError")
    ELSE IF rate = Zero
         THEN Ok(Round2(RNeg(RAdd(RMul(payment, Rat(n_periods)), future_value))))
    ELSE LET disc == PyPow(RAdd(One, rate), -n_periods)
         IN  IF ~IsOk(disc) THEN disc
             ELSE LET pv_factor == RMul(RSub(One, disc.val), RInv(rate))
                      pv == RNeg(RAdd(
                                RMul(RMul(payment, RAdd(One, RMul(rate, Rat(when)))),
                                     pv_factor),
                                RMul(future_value, disc.val)))
                  IN  Ok(Round2(pv))

future_value(rate, n_periods, payment, present, when) ==
    IF ~IsOk(validate_when(when)) THEN Raise("InputError")
    ELSE IF n_periods < 0 THEN Raise("InputError")
    ELSE IF rate = Zero
         THEN Ok(Round2(RNeg(RAdd(present, RMul(payment, Rat(n_periods))))))
    ELSE LET comp == PyPow(RAdd(One, rate), n_periods)
         IN  IF ~IsOk(comp) THEN comp
             ELSE LET fv_factor == RMul(RSub(comp.val, One), RInv(rate))
                      fv == RNeg(RAdd(
                                RMul(present, comp.val),
                                RMul(RMul(payment, RAdd(One, RMul(rate, Rat(when)))),
                                     fv_factor)))
                  IN  Ok(Round2(fv))

payment(rate, n_periods, present, future, when) ==
    IF ~IsOk(validate_when(when)) THEN Raise("InputError")
    ELSE IF n_periods <= 0 THEN Raise("InputError")
    ELSE IF rate = Zero
         THEN Ok(Round2(RMul(RNeg(RAdd(present, future)), RInv(Rat(n_periods)))))
    ELSE LET r1 == RAdd(One, rate)
             r1n == PyPow(r1, n_periods)
         IN  IF ~IsOk(r1n) THEN r1n
             ELSE LET numerator == RMul(rate, RAdd(RMul(present, r1n.val), future))
                      denominator == RMul(RAdd(One, RMul(rate, Rat(when))),
                                          RSub(r1n.val, One))
                      pmt == PyDiv(RNeg(numerator), denominator)
                  IN  IF ~IsOk(pmt) THEN pmt ELSE Ok(Round2(pmt.val))

(***************************************************************************)
(* Cashflow functions.                                                     *)
(***************************************************************************)
DaysPerYear == 365

\* variant: the first cashflow is discounted one period (enumerate from 1)
RECURSIVE NpvSumFromOne(_, _, _)
NpvSumFromOne(rate, cashflows, k) ==
    IF k = 0 THEN Ok(Zero)
    ELSE LET head == NpvSumFromOne(rate, cashflows, k - 1)
         IN  IF ~IsOk(head) THEN head
             ELSE LET disc == PyPow(RAdd(One, rate), k)
                  IN  IF ~IsOk(disc) THEN disc
                      ELSE LET term == PyDiv(cashflows[k], disc.val)
                           IN  IF ~IsOk(term) THEN term
                               ELSE Ok(RAdd(head.val, term.val))

\* sum(cf / (1 + rate) ** t for t, cf in enumerate(cashflows)), first k terms;
\* index k of the sequence is t = k - 1
RECURSIVE NpvSum(_, _, _)
NpvSum(rate, cashflows, k) ==
    IF k = 0 THEN Ok(Zero)
    ELSE LET head == NpvSum(rate, cashflows, k - 1)
         IN  IF ~IsOk(head) THEN head
             ELSE LET disc == PyPow(RAdd(One, rate), k - 1)
                  IN  IF ~IsOk(disc) THEN disc
                      ELSE LET term == PyDiv(cashflows[k], disc.val)
                           IN  IF ~IsOk(term) THEN term
                               ELSE Ok(RAdd(head.val, term.val))

npv(rate, cashflows) ==
    IF rate = RNeg(One) THEN Raise("DegenerateRate")
    ELSE NpvSum(rate, cashflows, Len(cashflows))

\* sum(cf / (1 + rate) ** ((d - t0).days / 365.0) for cf, d in zip(...)),
\* first k terms
RECURSIVE XnpvSum(_, _, _, _)
XnpvSum(rate, cashflows, dates, k) ==
    IF k = 0 THEN Ok(Zero)
    ELSE LET head == XnpvSum(rate, cashflows, dates, k - 1)
         IN  IF ~IsOk(head) THEN head
             ELSE LET t0 == dates[1]
                      disc == PyPow(RAdd(One, rate),
                                    (dates[k] - t0) \div DaysPerYear)
                  IN  IF ~IsOk(disc) THEN disc
                      ELSE LET term == PyDiv(cashflows[k], disc.val)
                           IN  IF ~IsOk(term) THEN term
                               ELSE Ok(RAdd(head.val, term.val))

\* variant: no early return for the empty series, so dates[0] is read
xnpv_no_empty_case(rate, cashflows, dates) ==
    IF Len(cashflows) # Len(dates) THEN Raise("InputError")
    ELSE IF Len(dates) = 0 THEN Raise("IndexError")
    ELSE XnpvSum(rate, cashflows, dates, Len(cashflows))

xnpv(rate, cashflows, dates) ==
    IF Len(cashflows) # Len(dates) THEN Raise("InputError")
    ELSE IF Len(cashflows) = 0 THEN Ok(Zero)
    ELSE XnpvSum(rate, cashflows, dates, Len(cashflows))

\* the closure f of rate(): the TVM balance equation at r
RateF(r, n_periods, pmt, pv, fv, when) ==
    IF r = Zero
    THEN Ok(RAdd(RAdd(pv, RMul(pmt, Rat(n_periods))), fv))
    ELSE LET r1 == RAdd(One, r)
             r1n == PyPow(r1, n_periods)
         IN  IF ~IsOk(r1n) THEN r1n
             ELSE Ok(RAdd(RAdd(RMul(pv, r1n.val),
                               RMul(RMul(RMul(pmt, RAdd(One, RMul(r, Rat(when)))),
                                         RSub(r1n.val, One)),
                                    RInv(r))),
                          fv))

(***************************************************************************)
(* The Newton-Raphson loop shared (as three textual copies) by rate, irr   *)
(* and xirr.                                                               *)
(***************************************************************************)
h == Norm(1, Resolution)

Objective(f, a, x) ==
    CASE f = "rate" -> RateF(x, a.n_periods, a.payment, a.present_value,
                             a.future_value, a.when)
      [] f = "irr" -> npv(x, a.cashflows)
      [] f = "xirr" -> xnpv(x, a.cashflows, a.dates)

\* variant: one iteration fewer
InBudgetShort(started, max_iter) == started < max_iter - 1

\* variant: one iteration more
InBudgetInclusive(started, max_iter) == started <= max_iter

\* for _ in range(max_iter): another iteration after `started` iterations
InBudget(started, max_iter) == started < max_iter

\* variant: abs(y) <= tol
ConvergedInclusive(yv, tol) == RLe(RAbs(yv), tol)

\* abs(y) < tol
Converged(yv, tol) == RLt(RAbs(yv), tol)

\* dy = (y_h - y) / h
Derivative(yv, y_h) == RMul(RSub(y_h, yv), RInv(h))

\* r -= y / dy, stored at the resolution of the iterate
NewtonUpdate(rv, yv, dyv) ==
    LET exact == RSub(rv, RMul(yv, RInv(dyv)))
    IN  Norm(RoundHalfEven(RMul(exact, Rat(Resolution))), Resolution)

\* variant: the empty series is not rejected
xirr_validate_lengths_only(cashflows, dates) ==
    IF Len(cashflows) # Len(dates) THEN Raise("InputError") ELSE Ok(Zero)

\* the argument checks of xirr
xirr_validate(cashflows, dates) ==
    IF Len(cashflows) # Len(dates) THEN Raise("InputError")
    ELSE IF Len(cashflows) = 0 THEN Raise("InputError")
    ELSE Ok(Zero)

\* the argument checks of rate
rate_validate(n_periods, when) ==
    IF ~IsOk(validate_when(when)) THEN Raise("InputError")
    ELSE IF n_periods <= 0 THEN Raise("InputError")
    ELSE Ok(Zero)

\* binding a call of npv(rate, cashflows) with `extra` surplus positional
\* arguments
npv_call(rate, cashflows, extra) ==
    IF Len(extra) > 0 THEN Raise("TypeError") ELSE npv(rate, cashflows)

(***************************************************************************)
(* Inputs of the calls.                                                    *)
(***************************************************************************)
Rates == {<<-1, 1>>, <<-1, 2>>, Zero, <<1, 10>>, One}
Periods == -1 .. MaxN
Whens == -1 .. 2
Money == {Rat(-1), Zero, Rat(8)}
CashValues == {Rat(-10), Zero, Rat(11)}
Outlays == {Rat(10)}
Guesses == {<<-11, 10>>, Rat(-1), Zero, <<1, 10>>}
Tols == {<<1, 10>>, One}
MaxIters == 0 .. MaxIter
SolverPeriods == -1 .. 2
SolverMoney == {Rat(-100), Zero, Rat(121)}
Days == {DaysPerYear * k : k \in 0 .. MaxYears}

SeqsUpTo(S, n) == UNION {[1 .. k -> S] : k \in 0 .. n}
Series == SeqsUpTo(CashValues, MaxLen)
DateSeries == SeqsUpTo(Days, MaxLen)

Solvers == {"rate", "irr", "xirr"}
Unset == <<>>

NoArgs ==
    [rate |-> Zero, n_periods |-> 0, payment |-> Zero, present_value |-> Zero,
     future_value |-> Zero, when |-> 0, cashflows |-> <<>>, dates |-> <<>>,
     extra |-> <<>>, guess |-> Zero, tol |-> Zero, max_iter |-> 0]

NoChain == [from |-> "none", args |-> NoArgs]

(***************************************************************************)
(* State: the call in progress or last completed.                          *)
(*   fn, args      the function called and its arguments                   *)
(*   pc            idle | loop | deriv | break | done                      *)
(*   outcome       none | return | the exception raised                    *)
(*   result        the value returned                                      *)
(*   r, y, dy      the solver's locals                                     *)
(*   started       iterations of the for loop started                      *)
(*   evals         evaluations of the objective f                          *)
(*   updates       executions of r -= y / dy                               *)
(*   trace         the values r has held, in order                         *)
(*   chain         the payment call whose result is the payment argument   *)
(*                 of the present_value call (round trip), if any          *)
(***************************************************************************)
VARIABLES fn, args, pc, outcome, result, r, y, dy, started, evals, updates,
          trace, chain

vars == <<fn, args, pc, outcome, result, r, y, dy, started, evals, updates,
          trace, chain>>

Init ==
    /\ fn = "none"
    /\ args = NoArgs
    /\ pc = "idle"
    /\ outcome = "none"
    /\ result = Zero
    /\ r = Zero
    /\ y = Unset
    /\ dy = Unset
    /\ started = 0
    /\ evals = 0
    /\ updates = 0
    /\ trace = <<>>
    /\ chain = NoChain

\* no function retains state between calls: every call starts from the
\* initial state
CanCall == pc = "idle"

NoSolver ==
    /\ r' = Zero
    /\ y' = Unset
    /\ dy' = Unset
    /\ started' = 0
    /\ evals' = 0
    /\ updates' = 0
    /\ trace' = <<>>

\* a call that completes without iterating
Finish(f, a, res) ==
    /\ fn' = f
    /\ args' = a
    /\ pc' = "done"
    /\ outcome' = IF IsOk(res) THEN "return" ELSE res.exc
    /\ result' = res.val
    /\ NoSolver

\* r = guess, entering the loop
StartSolver(f, a) ==
    /\ fn' = f
    /\ args' = a
    /\ pc' = "loop"
    /\ outcome' = "none"
    /\ result' = Zero
    /\ r' = a.guess
    /\ y' = Unset
    /\ dy' = Unset
    /\ started' = 0
    /\ evals' = 0
    /\ updates' = 0
    /\ trace' = <<a.guess>>

CallPresentValue ==
    /\ CanCall
    /\ \E rate \in Rates, n \in Periods, pmt \in Money, fv \in Money, when \in Whens :
         Finish("present_value",
                [NoArgs EXCEPT !.rate = rate, !.n_periods = n, !.payment = pmt,
                               !.future_value = fv, !.when = when],
                present_value(rate, n, pmt, fv, when))
    /\ chain' = NoChain

\* present_value called with the result of the payment call just made and
\* that call's rate, n_periods, future_value and when
RoundTripPresentValue ==
    /\ pc = "done"
    /\ fn = "payment"
    /\ outcome = "return"
    /\ Finish("present_value",
              [NoArgs EXCEPT !.rate = args.rate, !.n_periods = args.n_periods,
                             !.payment = result,
                             !.future_value = args.future_value,
                             !.when = args.when],
              present_value(args.rate, args.n_periods, result,
                            args.future_value, args.when))
    /\ chain' = [from |-> "payment", args |-> args]

CallFutureValue ==
    /\ CanCall
    /\ \E rate \in Rates, n \in Periods, pmt \in Money, pv \in Money, when \in Whens :
         Finish("future_value",
                [NoArgs EXCEPT !.rate = rate, !.n_periods = n, !.payment = pmt,
                               !.present_value = pv, !.when = when],
                future_value(rate, n, pmt, pv, when))
    /\ chain' = NoChain

CallPayment ==
    /\ CanCall
    /\ \E rate \in Rates, n \in Periods, pv \in Money, fv \in Money, when \in Whens :
         Finish("payment",
                [NoArgs EXCEPT !.rate = rate, !.n_periods = n,
                               !.present_value = pv, !.future_value = fv,
                               !.when = when],
                payment(rate, n, pv, fv, when))
    /\ chain' = NoChain

CallNpv ==
    /\ CanCall
    /\ \E rate \in Rates, cfs \in Series, extra \in SeqsUpTo(Outlays, 1) :
         Finish("npv",
                [NoArgs EXCEPT !.rate = rate, !.cashflows = cfs, !.extra = extra],
                npv_call(rate, cfs, extra))
    /\ chain' = NoChain

CallXnpv ==
    /\ CanCall
    /\ \E rate \in Rates, cfs \in Series, ds \in DateSeries :
         Finish("xnpv",
                [NoArgs EXCEPT !.rate = rate, !.cashflows = cfs, !.dates = ds],
                xnpv(rate, cfs, ds))
    /\ chain' = NoChain

CallRate ==
    /\ CanCall
    /\ \E n \in SolverPeriods, pmt \in SolverMoney, pv \in SolverMoney,
          fv \in SolverMoney, when \in Whens, guess \in Guesses, tol \in Tols,
          max_iter \in MaxIters :
         LET a == [NoArgs EXCEPT !.n_periods = n, !.payment = pmt,
                                 !.present_value = pv, !.future_value = fv,
                                 !.when = when, !.guess = guess, !.tol = tol,
                                 !.max_iter = max_iter]
             valid == rate_validate(n, when)
         IN  IF IsOk(valid) THEN StartSolver("rate", a)
             ELSE Finish("rate", a, valid)
    /\ chain' = NoChain

CallIrr ==
    /\ CanCall
    /\ \E cfs \in Series, guess \in Guesses, tol \in Tols, max_iter \in MaxIters :
         StartSolver("irr", [NoArgs EXCEPT !.cashflows = cfs, !.guess = guess,
                                           !.tol = tol, !.max_iter = max_iter])
    /\ chain' = NoChain

CallXirr ==
    /\ CanCall
    /\ \E cfs \in Series, ds \in DateSeries, guess \in Guesses, tol \in Tols,
          max_iter \in MaxIters :
         LET a == [NoArgs EXCEPT !.cashflows = cfs, !.dates = ds,
                                 !.guess = guess, !.tol = tol,
                                 !.max_iter = max_iter]
             valid == xirr_validate(cfs, ds)
         IN  IF IsOk(valid) THEN StartSolver("xirr", a)
             ELSE Finish("xirr", a, valid)
    /\ chain' = NoChain

\* y = f(r); if abs(y) < tol: return r
SolverEval ==
    /\ pc = "loop"
    /\ InBudget(started, args.max_iter)
    /\ started' = started + 1
    /\ evals' = evals + 1
    /\ LET fy == Objective(fn, args, r)
       IN  IF ~IsOk(fy)
           THEN /\ pc' = "done"
                /\ outcome' = fy.exc
                /\ UNCHANGED <<result, y>>
           ELSE /\ y' = fy.val
                /\ IF Converged(fy.val, args.tol)
                   THEN /\ pc' = "done"
                        /\ outcome' = "return"
                        /\ result' = r
                   ELSE /\ pc' = "deriv"
                        /\ UNCHANGED <<outcome, result>>
    /\ UNCHANGED <<fn, args, r, dy, updates, trace, chain>>

\* variant: `continue` in place of `break` on a zero derivative
SolverDerivContinue ==
    /\ pc = "deriv"
    /\ evals' = evals + 1
    /\ LET fyh == Objective(fn, args, RAdd(r, h))
       IN  IF ~IsOk(fyh)
           THEN /\ pc' = "done"
                /\ outcome' = fyh.exc
                /\ UNCHANGED <<dy, r, updates, trace>>
           ELSE LET d == Derivative(y, fyh.val)
                IN  /\ dy' = d
                    /\ outcome' = outcome
                    /\ pc' = "loop"
                    /\ IF d = Zero
                       THEN UNCHANGED <<r, updates, trace>>
                       ELSE /\ r' = NewtonUpdate(r, y, d)
                            /\ updates' = updates + 1
                            /\ trace' = Append(trace, NewtonUpdate(r, y, d))
    /\ UNCHANGED <<fn, args, result, y, started, chain>>

\* y_h = f(r + h); dy = (y_h - y) / h; if dy == 0: break; r -= y / dy
SolverDeriv ==
    /\ pc = "deriv"
    /\ evals' = evals + 1
    /\ LET fyh == Objective(fn, args, RAdd(r, h))
       IN  IF ~IsOk(fyh)
           THEN /\ pc' = "done"
                /\ outcome' = fyh.exc
                /\ UNCHANGED <<dy, r, updates, trace>>
           ELSE LET d == Derivative(y, fyh.val)
                IN  /\ dy' = d
                    /\ outcome' = outcome
                    /\ IF d = Zero
                       THEN /\ pc' = "break"
                            /\ UNCHANGED <<r, updates, trace>>
                       ELSE /\ pc' = "loop"
                            /\ r' = NewtonUpdate(r, y, d)
                            /\ updates' = updates + 1
                            /\ trace' = Append(trace, NewtonUpdate(r, y, d))
    /\ UNCHANGED <<fn, args, result, y, started, chain>>

\* break, then the raise after the loop
SolverBreak ==
    /\ pc = "break"
    /\ pc' = "done"
    /\ outcome' = "NonConvergence"
    /\ UNCHANGED <<fn, args, result, r, y, dy, started, evals, updates, trace,
                   chain>>

\* range(max_iter) exhausted, then the raise after the loop
SolverExhausted ==
    /\ pc = "loop"
    /\ ~InBudget(started, args.max_iter)
    /\ pc' = "done"
    /\ outcome' = "NonConvergence"
    /\ UNCHANGED <<fn, args, result, r, y, dy, started, evals, updates, trace,
                   chain>>

Next ==
    \/ CallPresentValue
    \/ RoundTripPresentValue
    \/ CallFutureValue
    \/ CallPayment
    \/ CallNpv
    \/ CallXnpv
    \/ CallRate
    \/ CallIrr
    \/ CallXirr
    \/ SolverEval
    \/ SolverDeriv
    \/ SolverBreak
    \/ SolverExhausted

Spec == Init /\ [][Next]_vars

(***************************************************************************)
(* Properties.                                                             *)
(***************************************************************************)
Hundredth == <<1, 100>>

\* the residual of the running call's objective at x is below tol
ResidualBelowTol(x) ==
    LET res == Objective(fn, args, x)
    IN  IsOk(res) /\ RLt(RAbs(res.val), args.tol)

RECURSIVE SeqSum(_)
SeqSum(s) == IF s = <<>> THEN Zero ELSE RAdd(Head(s), SeqSum(Tail(s)))

\* series[0] + (series[1] + (series[2] + ...) / (1 + rate)) / (1 + rate)
RECURSIVE DiscountedSum(_, _)
DiscountedSum(rate, s) ==
    IF s = <<>> THEN Zero
    ELSE RAdd(Head(s),
              RMul(DiscountedSum(rate, Tail(s)), RInv(RAdd(One, rate))))

\* non-convergence signalled because range(max_iter) ran out, not by break
BudgetExhausted ==
    /\ fn \in Solvers
    /\ pc = "done"
    /\ outcome = "NonConvergence"
    /\ dy # Zero

\* C1: whenever rate, irr or xirr returns r, the objective at r has
\* magnitude strictly below tol.
C1_ReturnedRateMeetsTol ==
    (fn \in Solvers /\ outcome = "return") => ResidualBelowTol(result)

C1_Witness ==
    /\ fn \in Solvers
    /\ outcome = "return"
    /\ updates >= 1
    /\ result # args.guess

\* C2 as stated: when the budget runs out and non-convergence is signalled,
\* no iterate the solver held (the guess or the r of any update, the last one
\* included) has a residual below tol.
C2_NoHeldIterateMeetsTol ==
    BudgetExhausted =>
        \A i \in 1 .. Len(trace) : ~ResidualBelowTol(trace[i])

\* C2 amended: when the budget runs out and non-convergence is signalled, no
\* iterate the loop tested (the guess and the r of each of the first
\* max_iter - 1 updates) has a residual below tol; the r of the last update
\* is not tested.
C2_NoTestedIterateMeetsTol ==
    BudgetExhausted =>
        \A i \in 1 .. Len(trace) :
            i <= args.max_iter => ~ResidualBelowTol(trace[i])

C2_Witness ==
    /\ BudgetExhausted
    /\ args.max_iter >= 1
    /\ updates = args.max_iter
    /\ ResidualBelowTol(r)

\* C3: present_value of the payment that payment(r, n, pv, fv, when)
\* returned, with the same r, n, fv and when, is within 0.01 of pv, for
\* r # 0 and n >= 1.
C3_RoundTripWithinCent ==
    (/\ fn = "present_value"
     /\ chain.from = "payment"
     /\ args.rate # Zero
     /\ args.n_periods >= 1
     /\ outcome = "return")
        => RLe(RAbs(RSub(result, chain.args.present_value)), Hundredth)

\* C4: xirr with an empty series or series of different lengths signals an
\* input error without evaluating the objective and without returning a rate.
C4_XirrRejectsBeforeIterating ==
    (fn = "xirr" /\ (Len(args.cashflows) = 0
                     \/ Len(args.cashflows) # Len(args.dates)))
        => /\ pc = "done"
           /\ outcome = "InputError"
           /\ started = 0
           /\ evals = 0

C4_Witness ==
    /\ fn = "xirr"
    /\ args.cashflows = <<>>
    /\ args.dates = <<>>
    /\ args.max_iter >= 1
    /\ outcome = "InputError"

\* C5: xnpv signals an error when the series differ in length and returns 0
\* when both are empty, for every rate, -1 included.
C5_XnpvLengthsAndEmpty ==
    fn = "xnpv" =>
        /\ Len(args.cashflows) # Len(args.dates) => outcome = "InputError"
        /\ (args.cashflows = <<>> /\ args.dates = <<>>)
              => (outcome = "return" /\ result = Zero)

C5_Witness ==
    /\ fn = "xnpv"
    /\ args.cashflows = <<>>
    /\ args.dates = <<>>
    /\ args.rate = Rat(-1)
    /\ outcome = "return"

\* C6: present_value and future_value raise for n_periods < 0 and accept
\* n_periods = 0; payment and rate raise for n_periods <= 0; all four raise for
\* a when outside {0, 1}, whatever the other arguments.
C6_InvalidInputIsAnError ==
    /\ (fn \in {"present_value", "future_value", "payment", "rate"}
        /\ args.when \notin {0, 1})
          => (pc = "done" /\ outcome = "InputError")
    /\ (fn \in {"present_value", "future_value"} /\ args.n_periods < 0)
          => outcome = "InputError"
    /\ (fn \in {"present_value", "future_value"} /\ args.n_periods = 0
        /\ args.when \in {0, 1})
          => outcome = "return"
    /\ (fn \in {"payment", "rate"} /\ args.n_periods <= 0)
          => (pc = "done" /\ outcome = "InputError")

C6_Witness ==
    /\ fn = "present_value"
    /\ args.rate = Zero
    /\ args.n_periods = 0
    /\ args.when = 2
    /\ outcome = "InputError"

C8_NpvTakesOutlay ==
    (fn = "npv" /\ Len(args.extra) = 1 /\ args.rate = Zero)
        => /\ outcome = "return"
           /\ result = RSub(SeqSum(args.cashflows), args.extra[1])

\* C9: when the finite-difference derivative is exactly zero at an iterate
\* whose residual is not below tol, the solver breaks out of the loop: r is
\* not updated, the objective is not evaluated again, and non-convergence is
\* signalled, whatever remains of the budget.
ZeroDerivativeHere ==
    LET fyh == Objective(fn, args, RAdd(r, h))
    IN  IsOk(fyh) /\ fyh.val = y

C9_ZeroDerivativeAborts ==
    [][/\ (pc = "deriv" /\ ZeroDerivativeHere)
            => (pc' = "break" /\ r' = r /\ updates' = updates)
       /\ pc = "break"
            => /\ pc' = "done"
               /\ outcome' = "NonConvergence"
               /\ r' = r
               /\ evals' = evals
               /\ updates' = updates]_vars

C9_Witness ==
    /\ fn \in Solvers
    /\ pc = "done"
    /\ outcome = "NonConvergence"
    /\ dy = Zero
    /\ started < args.max_iter

\* the counters of the loop stay within the cap
WithinCap ==
    fn \in Solvers =>
        /\ started <= args.max_iter
        /\ updates <= args.max_iter
        /\ evals <= 2 * args.max_iter

Running == pc \in {"loop", "deriv", "break"}

\* C10 as stated: a call that passed validation ends with a returned rate or
\* a non-convergence error, and with nothing else.
C10_TwoOutcomes ==
    (fn \in Solvers /\ pc = "done" /\ outcome # "InputError")
        => outcome \in {"return", "NonConvergence"}

\* an upper bound on the steps a running call still takes
StepsLeft ==
    2 * (args.max_iter - started)
      + (CASE pc = "loop" -> 2 [] pc = "deriv" -> 3 [] pc = "break" -> 1
           [] OTHER -> 0)

\* C10 amended: a call that passed validation performs at most max_iter
\* iterations (at most max_iter updates and 2 * max_iter evaluations), every
\* step it takes brings it closer to its end, and it ends with a returned
\* rate, a non-convergence error, or the error that an evaluation of the
\* objective raised.
C10_TerminatesWithinCap ==
    /\ [](WithinCap
          /\ (Running => StepsLeft > 0)
          /\ ((fn \in Solvers /\ pc = "done" /\ outcome # "InputError")
                => outcome \in {"return", "NonConvergence", "DegenerateRate",
                                "ZeroDivisionError", "OverflowError"}))
    /\ [][Running => (StepsLeft' >= 0 /\ StepsLeft' < StepsLeft)]_vars

C10_Witness ==
    /\ fn \in Solvers
    /\ pc = "done"
    /\ args.max_iter = MaxIter
    /\ started = args.max_iter
    /\ evals = 2 * args.max_iter
    /\ outcome = "NonConvergence"

====
